---- MODULE Spec2Model ----
(***************************************************************************)
(* Local background subtraction notebook                                   *)
(* (09-Photutils/photutils_local_backgrounds.ipynb).                       *)
(*                                                                         *)
(* The notebook is a linear sequence of code cells run in one kernel.  The *)
(* state is the kernel's namespace (data, phot, bkg_mask, bmask, ...), the *)
(* cell outputs, and the position in the notebook; there is one action per *)
(* code cell (the for loop of the last computing cell is stepped one       *)
(* iteration at a time).  A cell that raises leaves the names it bound     *)
(* before the exception; the next cell can still be run.                   *)
(*                                                                         *)
(* Numbers.  Floating point values are held as exact rationals [n, d] in   *)
(* lowest terms; d = 0 is NaN.  A standard deviation is held as its square *)
(* (the variance), so that no square root is needed.                       *)
(*                                                                         *)
(* Geometry.  The image is one row of pixels, pixel j spanning             *)
(* [j - 1/2, j + 1/2]; a position is its x coordinate in quarter pixels.   *)
(* A circular aperture of radius r at x is the interval [x - r, x + r], an *)
(* annulus the two intervals between r_in and r_out, and "area" is the     *)
(* length of the shape.  Bounding boxes, overlap weights, cutouts and the  *)
(* statistics follow photutils / astropy / numpy as the notebook calls     *)
(* them, restricted to that row.                                            *)
(***************************************************************************)
EXTENDS Integers, Sequences, FiniteSets, TLC

(***************************************************************************)
(* Bounds of the model.                                                    *)
(***************************************************************************)
\* image width in pixels
Width == 18
\* radius of the source aperture, inner and outer radius of the annulus (pixels)
R == 1
R_IN == 2
R_OUT == 7
\* largest number of source positions
MaxSrc == 2
\* value of the single bright pixel of the images that have one
Bright == 9

(***************************************************************************)
(* Program constants.                                                      *)
(***************************************************************************)
\* data += 5.
BKG == 5
\* sigma_clipped_stats defaults: sigma=3.0, maxiters=5
SIGMA == 3
MAXITERS == 5
\* biweight_location default tuning constant c=6.0
BIWEIGHT_C == 6

(***************************************************************************)
(* Exact arithmetic.                                                       *)
(***************************************************************************)
Abs(x) == IF x < 0 THEN -x ELSE x

Min(a, b) == IF a < b THEN a ELSE b

Max(a, b) == IF a > b THEN a ELSE b

RECURSIVE GCD(_, _)
GCD(a, b) == IF b = 0 THEN a ELSE GCD(b, a % b)

NaN == [n |-> 0, d |-> 0]

IsNaN(a) == a.d = 0

Rat(n, d) ==
    IF d = 0 THEN NaN
    ELSE LET g == GCD(Abs(n), Abs(d))
             s == IF d < 0 THEN -1 ELSE 1
         IN  [n |-> s * (n \div g), d |-> s * (d \div g)]

FromInt(i) == [n |-> i, d |-> 1]

Zero == FromInt(0)

RatAdd(a, b) ==
    IF IsNaN(a) \/ IsNaN(b) THEN NaN
    ELSE LET l == (a.d \div GCD(a.d, b.d)) * b.d
         IN  Rat(a.n * (l \div a.d) + b.n * (l \div b.d), l)

RatNeg(a) == [n |-> -a.n, d |-> a.d]

RatSub(a, b) == RatAdd(a, RatNeg(b))

RatMul(a, b) ==
    IF IsNaN(a) \/ IsNaN(b) THEN NaN
    ELSE LET g1 == GCD(Abs(a.n), b.d)
             g2 == GCD(Abs(b.n), a.d)
         IN  Rat((a.n \div g1) * (b.n \div g2), (a.d \div g2) * (b.d \div g1))

\* x / 0 does not occur in the notebook (areas and sample sizes are positive)
RatDiv(a, b) ==
    IF IsNaN(a) \/ IsNaN(b) \/ b.n = 0 THEN NaN
    ELSE RatMul(a, Rat(b.d, b.n))

\* comparisons with NaN are False, as in IEEE arithmetic
RatLT(a, b) == ~IsNaN(a) /\ ~IsNaN(b) /\ a.n * b.d < b.n * a.d

RatLE(a, b) == ~IsNaN(a) /\ ~IsNaN(b) /\ a.n * b.d <= b.n * a.d

RatAbs(a) == [n |-> Abs(a.n), d |-> a.d]

RatSq(a) == RatMul(a, a)

Range(s) == {s[i] : i \in DOMAIN s}

RECURSIVE RatSum(_)
RatSum(s) == IF s = <<>> THEN Zero ELSE RatAdd(s[1], RatSum(Tail(s)))

(***************************************************************************)
(* numpy / astropy.stats, as called by the notebook on a 1D sample.        *)
(***************************************************************************)
\* np.mean: NaN on an empty sample
np_mean(s) == IF s = <<>> THEN NaN ELSE RatDiv(RatSum(s), FromInt(Len(s)))

\* the k-th smallest value of s
Kth(s, k) ==
    CHOOSE v \in Range(s) :
        /\ Cardinality({i \in DOMAIN s : RatLT(s[i], v)}) < k
        /\ Cardinality({i \in DOMAIN s : RatLE(s[i], v)}) >= k

\* np.median: the middle value, or the mean of the two middle values
np_median(s) ==
    IF s = <<>> \/ \E i \in DOMAIN s : IsNaN(s[i]) THEN NaN
    ELSE LET n == Len(s)
         IN  IF n % 2 = 1 THEN Kth(s, (n + 1) \div 2)
             ELSE RatDiv(RatAdd(Kth(s, n \div 2), Kth(s, n \div 2 + 1)), FromInt(2))

\* np.std(s) ** 2, with ddof = 0
np_var(s) ==
    LET m == np_mean(s)
    IN  np_mean([i \in DOMAIN s |-> RatSq(RatSub(s[i], m))])

\* one pass of SigmaClip: keep median - sigma*std <= v <= median + sigma*std
ClipOnce(s) ==
    LET med == np_median(s)
        var == np_var(s)
        lim == RatMul(FromInt(SIGMA * SIGMA), var)
    IN  SelectSeq(s, LAMBDA v : RatLE(RatSq(RatSub(v, med)), lim))

\* SigmaClip: repeat until nothing is rejected or maxiters passes were made
RECURSIVE SigmaClip(_, _)
SigmaClip(s, iteration) ==
    IF iteration >= MAXITERS \/ s = <<>> THEN s
    ELSE LET kept == ClipOnce(s)
         IN  IF Len(kept) = Len(s) THEN s ELSE SigmaClip(kept, iteration + 1)

\* sigma_clipped_stats(s): mean, median and std of the clipped sample
\* (std is held as its square)
sigma_clipped_stats(s) ==
    LET c == SigmaClip(s, 0)
    IN  [mean |-> np_mean(c), median |-> np_median(c), std |-> np_var(c)]

\* biweight_location(s), c = 6.0:  M + sum(d*w) / sum(w) with d = s - M,
\* u = d / (c*MAD), w = (1 - u^2)^2 where |u| < 1 and 0 elsewhere;
\* M when MAD = 0
biweight_location(s) ==
    LET M   == np_median(s)
        d   == [i \in DOMAIN s |-> RatSub(s[i], M)]
        mad == np_median([i \in DOMAIN s |-> RatAbs(d[i])])
        u   == [i \in DOMAIN s |-> RatDiv(d[i], RatMul(FromInt(BIWEIGHT_C), mad))]
        w   == [i \in DOMAIN s |->
                   IF RatLE(FromInt(1), RatAbs(u[i])) THEN Zero
                   ELSE RatSq(RatSub(FromInt(1), RatSq(u[i])))]
    IN  IF IsNaN(M) THEN NaN
        ELSE IF mad.n = 0 THEN M
        ELSE RatAdd(M, RatDiv(RatSum([i \in DOMAIN s |-> RatMul(d[i], w[i])]),
                              RatSum(w)))

(***************************************************************************)
(* photutils apertures and aperture masks.                                 *)
(***************************************************************************)
\* floor(n / 4) and ceil(n / 4)
Floor4(n) == n \div 4

Ceil4(n) == -((-n) \div 4)

\* CircularAperture(positions, r) and CircularAnnulus(positions, r_in, r_out)
CircularAperture(pos, r) == [positions |-> pos, r_in |-> 0, r_out |-> r]

CircularAnnulus(pos, r_in, r_out) == [positions |-> pos, r_in |-> r_in, r_out |-> r_out]

\* aperture.area: the geometric measure of the shape (a length in this row
\* geometry), independent of the pixel grid
area(ap) == FromInt(2 * (ap.r_out - ap.r_in))

\* BoundingBox._from_float(x - r, x + r):
\* ixmin = floor(xmin + 0.5), ixmax = ceil(xmax + 0.5), ixmax exclusive
bounding_box(x, r) ==
    [ixmin |-> Floor4(x - 4 * r + 2), ixmax |-> Ceil4(x + 4 * r + 2)]

\* the overlap weight of pixel j with the circle of radius r at x:
\* "exact" is the covered fraction of the pixel, "center" is 1 when the
\* pixel centre is inside (distance < r) and 0 otherwise
circular_overlap(x, r, j, method) ==
    IF method = "center"
    THEN IF Abs(4 * j - x) < 4 * r THEN FromInt(1) ELSE Zero
    ELSE Rat(Max(0, Min(4 * j + 2, x + 4 * r) - Max(4 * j - 2, x - 4 * r)), 4)

\* the ApertureMask of the aperture at x: the weight grid over the bounding
\* box of the outer radius, the inner circle's weights subtracted
aperture_mask(x, r_in, r_out, method) ==
    LET bbox == bounding_box(x, r_out)
    IN  [ixmin |-> bbox.ixmin,
         ixmax |-> bbox.ixmax,
         data  |-> [k \in 1..(bbox.ixmax - bbox.ixmin) |->
                      LET j == bbox.ixmin + k - 1
                      IN  IF r_in = 0 THEN circular_overlap(x, r_out, j, method)
                          ELSE RatSub(circular_overlap(x, r_out, j, method),
                                      circular_overlap(x, r_in, j, method))]]

\* aperture.to_mask(method): a list of masks, one per position, in order
to_mask(ap, method) ==
    [i \in DOMAIN ap.positions |->
        aperture_mask(ap.positions[i], ap.r_in, ap.r_out, method)]

\* a value that is an array or None
None == [none |-> TRUE, arr |-> <<>>]

Array(a) == [none |-> FALSE, arr |-> a]

\* pixel j of the image (image[j], j = 0 .. width - 1)
Pixel(image, j) == FromInt(image[j + 1])

\* ApertureMask.cutout(data, fill_value=0.): the image under the bounding
\* box, fill_value where the box leaves the image, None when the box does
\* not overlap the image at all
cutout(m, image) ==
    IF m.ixmax <= 0 \/ m.ixmin >= Len(image) \/ m.ixmax <= m.ixmin THEN None
    ELSE Array([k \in 1..(m.ixmax - m.ixmin) |->
                   LET j == m.ixmin + k - 1
                   IN  IF j >= 0 /\ j < Len(image) THEN Pixel(image, j) ELSE Zero])

\* ApertureMask.multiply(data): cutout * mask.data, None when no overlap
multiply(m, image) ==
    LET c == cutout(m, image)
    IN  IF c.none THEN None
        ELSE Array([k \in DOMAIN c.arr |-> RatMul(c.arr[k], m.data[k])])

\* ApertureMask.to_image(shape): the weight grid placed in an image of zeros,
\* None when the box does not overlap the image
to_image(m, width) ==
    IF m.ixmax <= 0 \/ m.ixmin >= width \/ m.ixmax <= m.ixmin THEN None
    ELSE Array([p \in 1..width |->
                   LET k == p - m.ixmin
                   IN  IF k >= 1 /\ k <= Len(m.data) THEN m.data[k] ELSE Zero])

\* a[b] for a boolean array b: IndexError when the shapes differ
BoolIndex(a, b) ==
    LET F[k \in 0..Len(a)] ==
            IF k = 0 THEN <<>>
            ELSE IF b[k] THEN Append(F[k - 1], a[k]) ELSE F[k - 1]
    IN  F[Len(a)]

\* m.data > 0
Positive(w) == [k \in DOMAIN w |-> RatLT(Zero, w[k])]

\* the sum aperture_photometry takes under one mask: sum(cutout * mask.data),
\* NaN when the aperture does not overlap the image
aperture_sum(m, image) ==
    LET p == multiply(m, image)
    IN  IF p.none THEN NaN ELSE RatSum(p.arr)

\* the variance aperture_photometry propagates: sum(error**2 * mask.data)
aperture_var(m, variance) ==
    LET c == [k \in DOMAIN m.data |->
                 LET j == m.ixmin + k - 1
                 IN  IF j >= 0 /\ j < Len(variance)
                     THEN RatMul(variance[j + 1], m.data[k]) ELSE Zero]
    IN  IF m.ixmax <= 0 \/ m.ixmin >= Len(variance) THEN NaN ELSE RatSum(c)

\* the columns of aperture_photometry(data, ap): the default method is
\* "exact"; one row per position, in the order of the positions
photometry_column(ap, image) ==
    LET masks == to_mask(ap, "exact")
    IN  [i \in DOMAIN masks |-> aperture_sum(masks[i], image)]

photometry_err_column(ap, variance) ==
    LET masks == to_mask(ap, "exact")
    IN  [i \in DOMAIN masks |-> aperture_var(masks[i], variance)]

photometry_table(ap) ==
    [id      |-> [i \in DOMAIN ap.positions |-> FromInt(i)],
     xcenter |-> [i \in DOMAIN ap.positions |-> Rat(ap.positions[i], 4)]]

\* calc_total_error(data, bkg_error, effective_gain), squared:
\* bkg_error**2 + max(data / effective_gain, 0)
calc_total_error(image, bkg_error, gain) ==
    [p \in DOMAIN image |->
        RatAdd(FromInt(bkg_error[p] * bkg_error[p]),
               IF image[p] > 0 THEN Rat(image[p], gain) ELSE Zero)]

\* column * scalar, column / scalar, column - column, element by element
ColScale(col, a) == [i \in DOMAIN col |-> RatMul(col[i], a)]

ColDiv(col, a) == [i \in DOMAIN col |-> RatDiv(col[i], a)]

ColSub(c1, c2) == [i \in DOMAIN c1 |-> RatSub(c1[i], c2[i])]

(***************************************************************************)
(* The notebook.                                                           *)
(***************************************************************************)
VARIABLES
    \* inputs: the science image file, the rms image file, hdr['TEXPTIME'],
    \* and the positions the notebook lists
    sci, rms, texptime, xy,
    \* the kernel: the names bound so far and their values
    names,
    data, error, eff_gain, tot_error,
    positions, apertures, aper, bkg_aper,
    phot,
    bkg_mask, bmask, data1, idx, aper_data, weights,
    mean_sigclip, median_sigclip, std_sigclip,
    bkg_total,
    bkg_median, mask,
    \* the notebook: the cell to run next, the position of the for statement's
    \* iterator, the values the cells displayed, the exception each cell that
    \* raised ended with, and the exception of the cell run last ("" if none)
    pc, it, out, tb, err

inputs == <<sci, rms, texptime, xy>>

images == <<data, error, eff_gain, tot_error>>

shapes == <<positions, apertures, aper, bkg_aper>>

walk == <<bmask, data1, idx, weights>>

stats == <<mean_sigclip, median_sigclip, std_sigclip>>

vars == <<inputs, names, images, shapes, phot, bkg_mask, walk, aper_data, stats,
          bkg_total, bkg_median, mask, pc, it, out, tb, err>>

\* the code cells, in notebook order
Cells == << "load", "tot_error", "add_bkg", "apertures", "phot1", "apers",
            "phot2", "annulus_mean", "aperture_bkg", "bkgsub", "to_mask",
            "to_mask_center", "multiply", "extract", "weights", "mean_median",
            "sigclip", "biweight", "bkg_total", "sub_first", "loop", "columns",
            "cutouts", "to_image", "done" >>

CellNo(c) == CHOOSE k \in DOMAIN Cells : Cells[k] = c

NextCell(c) == Cells[CellNo(c) + 1]

\* the cell c has been run
\* the number of the cell the notebook is at: the for statement is in the
\* cell "loop"; a halted notebook stopped after the last cell that raised
At ==
    IF pc = "for" THEN CellNo("loop")
    ELSE IF pc = "halted"
         THEN 1 + CHOOSE k \in DOMAIN Cells :
                      /\ Cells[k] \in DOMAIN tb
                      /\ \A c \in DOMAIN tb : CellNo(c) <= k
    ELSE CellNo(pc)

\* the cell c has been run
Ran(c) == CellNo(c) < At

(***************************************************************************)
(* The inputs the model draws from.                                        *)
(***************************************************************************)
\* a flat image, an image with a step, an image with one bright pixel
ConstImage(c) == [p \in 1..Width |-> c]

StepImage(s, a, b) == [p \in 1..Width |-> IF p - 1 < s THEN a ELSE b]

BrightImage(o) == [p \in 1..Width |-> IF p - 1 = o THEN Bright ELSE 0]

Images ==
    {ConstImage(c) : c \in {-BKG, 0}}
    \cup {StepImage(s, lv[1], lv[2]) : s \in {5, 9, 12}, lv \in {<<0, 2>>, <<2, 0>>}}
    \cup {BrightImage(o) : o \in {q \in 0..(Width - 1) : q % 3 = 0}}

\* positions in quarter pixels: 8, 9.25 and 8.5 (inside the image), 3 (the
\* annulus leaves the image), -9 (the annulus is outside the image)
PosSet == {32, 37, 34, 12, -36}

PosLists == UNION {[1..n -> PosSet] : n \in 1..MaxSrc}

NoTable == [c \in {} |-> <<>>]

NoMask == [ixmin |-> 0, ixmax |-> 0, data |-> <<>>]

NoAperture == [positions |-> <<>>, r_in |-> 0, r_out |-> 0]

Init ==
    /\ sci \in Images
    /\ rms = [p \in 1..Width |-> 1]
    /\ texptime = 2
    /\ xy \in PosLists
    /\ names = {}
    /\ data = <<>> /\ error = <<>> /\ eff_gain = 0 /\ tot_error = <<>>
    /\ positions = <<>>
    /\ apertures = NoAperture /\ aper = NoAperture /\ bkg_aper = NoAperture
    /\ phot = NoTable
    /\ bkg_mask = <<>> /\ bmask = NoMask /\ data1 = None /\ idx = <<>>
    /\ aper_data = None /\ weights = <<>>
    /\ mean_sigclip = NaN /\ median_sigclip = NaN /\ std_sigclip = NaN
    /\ bkg_total = NaN
    /\ bkg_median = <<>> /\ mask = NoMask
    /\ pc = "load" /\ it = 0
    /\ out = [c \in {} |-> NaN]
    /\ tb = [c \in {} |-> ""]
    /\ err = ""

\* the cell at pc ends: normally (e = "") or with the exception e
Ends(cell, e) ==
    /\ pc' = NextCell(cell)
    /\ err' = e
    /\ tb' = IF e = "" THEN tb ELSE (cell :> e) @@ tb

Bind(ns) == names' = names \cup ns

(***************************************************************************)
(* Preliminaries.                                                          *)
(***************************************************************************)
\* data = fits.getdata(sci_fn); error = fits.getdata(rms_fn)
Load ==
    /\ pc = "load"
    /\ data' = sci
    /\ error' = rms
    /\ Bind({"data", "error", "hdr"})
    /\ Ends("load", "")
    /\ UNCHANGED <<inputs, eff_gain, tot_error, shapes, phot, bkg_mask, walk,
                   aper_data, stats, bkg_total, bkg_median, mask, it, out>>

\* data += 5.
add_background_twice(image) == [p \in DOMAIN image |-> image[p] + BKG + BKG]

add_background(image) == [p \in DOMAIN image |-> image[p] + BKG]

\* tot_error = calc_total_error(data, error, eff_gain), on the data of the
\* moment the cell runs
total_error_after_offset == calc_total_error(add_background(data), error, texptime)

total_error == calc_total_error(data, error, texptime)

\* eff_gain = hdr['TEXPTIME']; tot_error = calc_total_error(data, error, eff_gain)
TotError ==
    /\ pc = "tot_error"
    /\ eff_gain' = texptime
    /\ tot_error' = total_error
    /\ Bind({"eff_gain", "tot_error"})
    /\ Ends("tot_error", "")
    /\ UNCHANGED <<inputs, data, error, shapes, phot, bkg_mask, walk,
                   aper_data, stats, bkg_total, bkg_median, mask, it, out>>

AddBkg ==
    /\ pc = "add_bkg"
    /\ data' = add_background(data)
    /\ Ends("add_bkg", "")
    /\ UNCHANGED <<inputs, names, error, eff_gain, tot_error, shapes, phot,
                   bkg_mask, walk, aper_data, stats, bkg_total, bkg_median,
                   mask, it, out>>

(***************************************************************************)
(* Aperture photometry at multiple positions.                              *)
(***************************************************************************)
\* positions = [...]; radius = 5.; apertures = CircularAperture(positions, r=radius)
Apertures ==
    /\ pc = "apertures"
    /\ positions' = xy
    /\ apertures' = CircularAperture(xy, R)
    /\ Bind({"positions", "radius", "apertures"})
    /\ Ends("apertures", "")
    /\ UNCHANGED <<inputs, images, aper, bkg_aper, phot, bkg_mask, walk,
                   aper_data, stats, bkg_total, bkg_median, mask, it, out>>

\* phot = aperture_photometry(data * unit, apertures, error=tot_error * unit)
Phot1 ==
    /\ pc = "phot1"
    /\ phot' = photometry_table(apertures)
               @@ [aperture_sum     |-> photometry_column(apertures, data),
                   aperture_sum_err |-> photometry_err_column(apertures, tot_error)]
    /\ Bind({"unit", "phot"})
    /\ Ends("phot1", "")
    /\ UNCHANGED <<inputs, images, shapes, bkg_mask, walk, aper_data, stats,
                   bkg_total, bkg_median, mask, it, out>>

(***************************************************************************)
(* Local background estimation: the simple mean.                           *)
(***************************************************************************)
\* aper = CircularAperture(positions, r=5)
\* bkg_aper = CircularAnnulus(positions, r_in=10., r_out=15.)
Apers ==
    /\ pc = "apers"
    /\ positions' = xy
    /\ aper' = CircularAperture(xy, R)
    /\ bkg_aper' = CircularAnnulus(xy, R_IN, R_OUT)
    /\ Bind({"positions", "aper", "bkg_aper", "apers"})
    /\ Ends("apers", "")
    /\ UNCHANGED <<inputs, images, apertures, phot, bkg_mask, walk, aper_data,
                   stats, bkg_total, bkg_median, mask, it, out>>

\* phot = aperture_photometry(data, apers), aperture_sum_0 renamed to
\* aperture_sum and aperture_sum_1 to annulus_sum
Phot2 ==
    /\ pc = "phot2"
    /\ phot' = photometry_table(aper)
               @@ [aperture_sum |-> photometry_column(aper, data),
                   annulus_sum  |-> photometry_column(bkg_aper, data)]
    /\ Bind({"phot"})
    /\ Ends("phot2", "")
    /\ UNCHANGED <<inputs, images, shapes, bkg_mask, walk, aper_data, stats,
                   bkg_total, bkg_median, mask, it, out>>

\* phot['annulus_sum'] / bkg_aper.area
annulus_mean_by_source_area == ColDiv(phot.annulus_sum, area(aper))

annulus_mean == ColDiv(phot.annulus_sum, area(bkg_aper))

\* phot['annulus_mean'] = phot['annulus_sum'] / bkg_aper.area
AnnulusMean ==
    /\ pc = "annulus_mean"
    /\ phot' = [annulus_mean |-> annulus_mean] @@ phot
    /\ Ends("annulus_mean", "")
    /\ UNCHANGED <<inputs, names, images, shapes, bkg_mask, walk, aper_data,
                   stats, bkg_total, bkg_median, mask, it, out>>

\* phot['annulus_mean'] * aper.area
aperture_bkg_by_annulus_area == ColScale(phot.annulus_mean, area(bkg_aper))

aperture_bkg == ColScale(phot.annulus_mean, area(aper))

\* phot['aperture_bkg'] = phot['annulus_mean'] * aper.area
ApertureBkg ==
    /\ pc = "aperture_bkg"
    /\ phot' = [aperture_bkg |-> aperture_bkg] @@ phot
    /\ Ends("aperture_bkg", "")
    /\ UNCHANGED <<inputs, names, images, shapes, bkg_mask, walk, aper_data,
                   stats, bkg_total, bkg_median, mask, it, out>>

\* flux_bkgsub = phot['aperture_sum'] - phot['aperture_bkg']
\* phot['aperture_sum_bkgsub'] = flux_bkgsub
BkgSub ==
    /\ pc = "bkgsub"
    /\ phot' = [aperture_sum_bkgsub |-> ColSub(phot.aperture_sum, phot.aperture_bkg)]
               @@ phot
    /\ Bind({"flux_bkgsub"})
    /\ Ends("bkgsub", "")
    /\ UNCHANGED <<inputs, images, shapes, bkg_mask, walk, aper_data, stats,
                   bkg_total, bkg_median, mask, it, out>>

(***************************************************************************)
(* Custom local background subtraction: the first source.                  *)
(***************************************************************************)
\* bkg_mask = bkg_aper.to_mask()
ToMask ==
    /\ pc = "to_mask"
    /\ bkg_mask' = to_mask(bkg_aper, "exact")
    /\ Bind({"bkg_mask"})
    /\ Ends("to_mask", "")
    /\ UNCHANGED <<inputs, images, shapes, phot, walk, aper_data, stats,
                   bkg_total, bkg_median, mask, it, out>>

\* bkg_mask = bkg_aper.to_mask(method='center')
ToMaskCenter ==
    /\ pc = "to_mask_center"
    /\ bkg_mask' = to_mask(bkg_aper, "center")
    /\ Ends("to_mask_center", "")
    /\ UNCHANGED <<inputs, names, images, shapes, phot, walk, aper_data, stats,
                   bkg_total, bkg_median, mask, it, out>>

\* bmask = bkg_mask[0]; data1 = bmask.multiply(data); plt.imshow(data1, ...)
\* imshow raises TypeError on None
Multiply ==
    /\ pc = "multiply"
    /\ bmask' = bkg_mask[1]
    /\ data1' = multiply(bkg_mask[1], data)
    /\ Bind({"bmask", "data1"})
    /\ Ends("multiply", IF data1'.none THEN "TypeError" ELSE "")
    /\ UNCHANGED <<inputs, images, shapes, phot, bkg_mask, idx, weights,
                   aper_data, stats, bkg_total, bkg_median, mask, it, out>>

\* idx = bmask.data > 0; aper_data = data1[idx]
\* None[idx] raises TypeError, after idx was bound
Extract ==
    /\ pc = "extract"
    /\ idx' = Positive(bmask.data)
    /\ IF data1.none
       THEN /\ Bind({"idx"})
            /\ Ends("extract", "TypeError")
            /\ UNCHANGED aper_data
       ELSE /\ aper_data' = Array(BoolIndex(data1.arr, idx'))
            /\ Bind({"idx", "aper_data"})
            /\ Ends("extract", "")
    /\ UNCHANGED <<inputs, images, shapes, phot, bkg_mask, bmask, data1,
                   weights, stats, bkg_total, bkg_median, mask, it, out>>

\* weights = bmask.data[idx]
Weights ==
    /\ pc = "weights"
    /\ weights' = BoolIndex(bmask.data, idx)
    /\ Bind({"weights"})
    /\ Ends("weights", "")
    /\ UNCHANGED <<inputs, images, shapes, phot, bkg_mask, bmask, data1, idx,
                   aper_data, stats, bkg_total, bkg_median, mask, it, out>>

\* np.mean(aper_data), np.median(aper_data)
\* NameError when aper_data was never bound
MeanMedian ==
    /\ pc = "mean_median"
    /\ IF "aper_data" \notin names
       THEN /\ Ends("mean_median", "NameError")
            /\ UNCHANGED out
       ELSE /\ out' = [mean |-> np_mean(aper_data.arr),
                       median |-> np_median(aper_data.arr)] @@ out
            /\ Ends("mean_median", "")
    /\ UNCHANGED <<inputs, names, images, shapes, phot, bkg_mask, walk,
                   aper_data, stats, bkg_total, bkg_median, mask, it>>

\* the statistics of the cell "sigclip"
walk_stats_unclipped ==
    [mean |-> np_mean(aper_data.arr), median |-> np_median(aper_data.arr),
     std |-> np_var(aper_data.arr)]

walk_stats == sigma_clipped_stats(aper_data.arr)

\* mean_sigclip, median_sigclip, std_sigclip = sigma_clipped_stats(aper_data)
\* mean_sigclip, median_sigclip
SigClip ==
    /\ pc = "sigclip"
    /\ IF "aper_data" \notin names
       THEN /\ Bind({"sigma_clipped_stats"})
            /\ Ends("sigclip", "NameError")
            /\ UNCHANGED <<stats, out>>
       ELSE /\ LET st == walk_stats
               IN  /\ mean_sigclip' = st.mean
                   /\ median_sigclip' = st.median
                   /\ std_sigclip' = st.std
                   /\ out' = [mean_sigclip |-> st.mean,
                              median_sigclip |-> st.median] @@ out
            /\ Bind({"sigma_clipped_stats", "mean_sigclip", "median_sigclip",
                     "std_sigclip"})
            /\ Ends("sigclip", "")
    /\ UNCHANGED <<inputs, images, shapes, phot, bkg_mask, walk, aper_data,
                   bkg_total, bkg_median, mask, it>>

\* biweight_location(aper_data)
Biweight ==
    /\ pc = "biweight"
    /\ IF "aper_data" \notin names
       THEN /\ Ends("biweight", "NameError")
            /\ UNCHANGED out
       ELSE /\ out' = [biweight |-> biweight_location(aper_data.arr)] @@ out
            /\ Ends("biweight", "")
    /\ UNCHANGED <<inputs, names, images, shapes, phot, bkg_mask, walk,
                   aper_data, stats, bkg_total, bkg_median, mask, it>>

\* bkg_total = aper.area * median_sigclip
BkgTotal ==
    /\ pc = "bkg_total"
    /\ IF "median_sigclip" \notin names
       THEN /\ Ends("bkg_total", "NameError")
            /\ UNCHANGED <<names, bkg_total, out>>
       ELSE /\ bkg_total' = RatMul(area(aper), median_sigclip)
            /\ out' = [bkg_total |-> bkg_total'] @@ out
            /\ Bind({"bkg_total"})
            /\ Ends("bkg_total", "")
    /\ UNCHANGED <<inputs, images, shapes, phot, bkg_mask, walk, aper_data,
                   stats, bkg_median, mask, it>>

\* phot['aperture_sum'][0] - bkg_total
SubFirst ==
    /\ pc = "sub_first"
    /\ IF "bkg_total" \notin names
       THEN /\ Ends("sub_first", "NameError")
            /\ UNCHANGED out
       ELSE /\ out' = [sub_first |-> RatSub(phot.aperture_sum[1], bkg_total)] @@ out
            /\ Ends("sub_first", "")
    /\ UNCHANGED <<inputs, names, images, shapes, phot, bkg_mask, walk,
                   aper_data, stats, bkg_total, bkg_median, mask, it>>

(***************************************************************************)
(* Putting it all together: all the sources.                               *)
(***************************************************************************)
\* bkg_median = []; bkg_mask = bkg_aper.to_mask(method='center'); for ...
LoopStart ==
    /\ pc = "loop"
    /\ bkg_median' = <<>>
    /\ bkg_mask' = to_mask(bkg_aper, "center")
    /\ it' = 1
    /\ pc' = "for"
    /\ err' = ""
    /\ Bind({"bkg_median"})
    /\ UNCHANGED <<inputs, images, shapes, phot, walk, aper_data, stats,
                   bkg_total, mask, out, tb>>

\* aper_data = bmask.multiply(data): the mask multiplied is bmask, the name
\* the cell "multiply" bound to bkg_mask[0]
loop_product == multiply(bmask, data)

\* _, median_sigclip, _ = sigma_clipped_stats(aper_data)
loop_estimate_mean(sample) == sigma_clipped_stats(sample).mean

loop_estimate(sample) == sigma_clipped_stats(sample).median

\* where control is after the body raised in iteration i: the exception leaves
\* the for statement and the cell
OnRaiseContinue(i) == [pc |-> "for", it |-> i + 1]

OnRaise(i) == [pc |-> NextCell("loop"), it |-> i]

Raises(e) ==
    /\ pc' = OnRaise(it).pc
    /\ it' = OnRaise(it).it
    /\ err' = e
    /\ tb' = ("loop" :> e) @@ tb

\* one iteration of
\*     for mask in bkg_mask:
\*         aper_data = bmask.multiply(data)
\*         aper_data = aper_data[mask.data > 0]
\*         _, median_sigclip, _ = sigma_clipped_stats(aper_data)
\*         bkg_median.append(median_sigclip)
\* None[...] raises TypeError; a boolean index of another shape raises IndexError
LoopBody ==
    /\ pc = "for"
    /\ it <= Len(bkg_mask)
    /\ mask' = bkg_mask[it]
    /\ LET p == loop_product
       IN  IF p.none
           THEN /\ aper_data' = None
                /\ Bind({"mask", "aper_data"})
                /\ Raises("TypeError")
                /\ UNCHANGED <<median_sigclip, bkg_median>>
           ELSE IF Len(p.arr) # Len(mask'.data)
           THEN /\ aper_data' = p
                /\ Bind({"mask", "aper_data"})
                /\ Raises("IndexError")
                /\ UNCHANGED <<median_sigclip, bkg_median>>
           ELSE /\ aper_data' = Array(BoolIndex(p.arr, Positive(mask'.data)))
                /\ median_sigclip' = loop_estimate(aper_data'.arr)
                /\ bkg_median' = Append(bkg_median, median_sigclip')
                /\ Bind({"mask", "aper_data", "median_sigclip"})
                /\ it' = it + 1
                /\ UNCHANGED <<pc, err, tb>>
    /\ UNCHANGED <<inputs, images, shapes, phot, bkg_mask, walk, mean_sigclip,
                   std_sigclip, bkg_total, out>>

\* bkg_median = np.array(bkg_median)
LoopEnd ==
    /\ pc = "for"
    /\ it > Len(bkg_mask)
    /\ Ends("loop", "")
    /\ UNCHANGED <<inputs, names, images, shapes, phot, bkg_mask, walk,
                   aper_data, stats, bkg_total, bkg_median, mask, it, out>>

\* phot['annulus_median'] = bkg_median
\* phot['aperture_bkg2'] = bkg_median * aper.area
\* phot['aperture_sum_bkgsub2'] = phot['aperture_sum'] - phot['aperture_bkg2']
\* a column of another length than the table raises ValueError
Columns ==
    /\ pc = "columns"
    /\ IF Len(bkg_median) # Len(phot.id)
       THEN /\ Ends("columns", "ValueError")
            /\ UNCHANGED phot
       ELSE /\ LET bkg2 == ColScale(bkg_median, area(aper))
               IN  phot' = [annulus_median       |-> bkg_median,
                            aperture_bkg2        |-> bkg2,
                            aperture_sum_bkgsub2 |-> ColSub(phot.aperture_sum, bkg2)]
                           @@ phot
            /\ Ends("columns", "")
    /\ UNCHANGED <<inputs, names, images, shapes, bkg_mask, walk, aper_data,
                   stats, bkg_total, bkg_median, mask, it, out>>

(***************************************************************************)
(* A few more things about ApertureMask.                                   *)
(***************************************************************************)
\* plt.imshow(bmask.cutout(data)); plt.imshow(bmask.multiply(data), ...)
Cutouts ==
    /\ pc = "cutouts"
    /\ Ends("cutouts", IF cutout(bmask, data).none \/ multiply(bmask, data).none
                       THEN "TypeError" ELSE "")
    /\ UNCHANGED <<inputs, names, images, shapes, phot, bkg_mask, walk,
                   aper_data, stats, bkg_total, bkg_median, mask, it, out>>

\* plt.imshow(bmask.to_image(data.shape))
ToImage ==
    /\ pc = "to_image"
    /\ Ends("to_image", IF to_image(bmask, Len(data)).none THEN "TypeError" ELSE "")
    /\ UNCHANGED <<inputs, names, images, shapes, phot, bkg_mask, walk,
                   aper_data, stats, bkg_total, bkg_median, mask, it, out>>

\* "Run All" stops at the first cell that raises
Halt ==
    /\ err # ""
    /\ pc \notin {"done", "halted"}
    /\ pc' = "halted"
    /\ UNCHANGED <<inputs, names, images, shapes, phot, bkg_mask, walk,
                   aper_data, stats, bkg_total, bkg_median, mask, it, out, tb, err>>

Next ==
    \/ Load \/ TotError \/ AddBkg \/ Apertures \/ Phot1
    \/ Apers \/ Phot2 \/ AnnulusMean \/ ApertureBkg \/ BkgSub
    \/ ToMask \/ ToMaskCenter \/ Multiply \/ Extract \/ Weights
    \/ MeanMedian \/ SigClip \/ Biweight \/ BkgTotal \/ SubFirst
    \/ LoopStart \/ LoopBody \/ LoopEnd \/ Columns
    \/ Cutouts \/ ToImage \/ Halt

Spec == Init /\ [][Next]_vars

(***************************************************************************)
(* Properties.                                                             *)
(***************************************************************************)
\* the geometric measures of the source aperture and of the annulus
SourceArea == FromInt(2 * R)

AnnulusArea == FromInt(2 * (R_OUT - R_IN))

HasCol(c) == c \in DOMAIN phot

\* the annulus of source i does not overlap the image
Outside(i) == cutout(bkg_mask[i], data).none

\* the sample source i's own annulus mask selects from the image
OwnSample(i) ==
    BoolIndex(multiply(bkg_mask[i], data).arr, Positive(bkg_mask[i].data))

\* the loop ended normally and the next cell is about to run
LoopDone == pc = "columns" /\ "loop" \notin DOMAIN tb

\* C1: after the all-sources loop, for every source i the estimate
\* bkg_median[i] is the sigma-clipped median of the image values under
\* source i's own center-policy annulus mask.
C1_OwnAnnulus ==
    LoopDone =>
        \A i \in DOMAIN bkg_median :
            ~Outside(i) =>
                \A smp \in {OwnSample(i)} :
                    bkg_median[i] = sigma_clipped_stats(smp).median

\* C2: in every row, annulus_mean = annulus_sum / bkg_aper.area,
\* aperture_bkg = annulus_mean * aper.area (the source aperture's area),
\* aperture_sum_bkgsub = aperture_sum - aperture_bkg, and likewise
\* aperture_bkg2 = bkg_median * aper.area,
\* aperture_sum_bkgsub2 = aperture_sum - aperture_bkg2.
C2_AreaScaling ==
    /\ HasCol("annulus_mean") =>
         \A i \in DOMAIN phot.id :
            phot.annulus_mean[i] = RatDiv(phot.annulus_sum[i], AnnulusArea)
    /\ HasCol("aperture_bkg") =>
         \A i \in DOMAIN phot.id :
            phot.aperture_bkg[i] = RatMul(phot.annulus_mean[i], SourceArea)
    /\ HasCol("aperture_sum_bkgsub") =>
         \A i \in DOMAIN phot.id :
            phot.aperture_sum_bkgsub[i]
                = RatSub(phot.aperture_sum[i], phot.aperture_bkg[i])
    /\ HasCol("aperture_bkg2") =>
         \A i \in DOMAIN phot.id :
            /\ phot.annulus_median[i] = bkg_median[i]
            /\ phot.aperture_bkg2[i] = RatMul(bkg_median[i], SourceArea)
    /\ HasCol("aperture_sum_bkgsub2") =>
         \A i \in DOMAIN phot.id :
            phot.aperture_sum_bkgsub2[i]
                = RatSub(phot.aperture_sum[i], phot.aperture_bkg2[i])

\* a finished run with two sources whose total background differs from the
\* raw annulus sum and from the per-pixel mean
C2_Witness ==
    /\ pc = "done"
    /\ \A i \in DOMAIN xy : bounding_box(xy[i], R_OUT).ixmin >= 0
    /\ HasCol("aperture_sum_bkgsub2")
    /\ Len(xy) >= 2
    /\ \A i \in DOMAIN phot.id :
          /\ ~IsNaN(phot.aperture_bkg[i])
          /\ phot.aperture_bkg[i].n # 0
          /\ phot.aperture_bkg[i] # phot.annulus_sum[i]
          /\ phot.aperture_bkg[i] # phot.annulus_mean[i]
          /\ phot.aperture_bkg2[i].n # 0

\* every annulus overlaps the image
AllOverlap ==
    \A i \in DOMAIN xy : ~cutout(aperture_mask(xy[i], R_IN, R_OUT, "center"), data).none

\* no cell raised
NoError == DOMAIN tb = {}

\* C3: when the notebook has run to its end, the table has one row per
\* position in the order of the positions, the loop appended one estimate
\* per position, and row i of the derived columns holds position i's values
\* (the columns of the sigma-clipped median hold the estimate of position
\* i's own annulus).
C3_RowsBelongToPositions ==
    (pc = "done" /\ AllOverlap /\ NoError) =>
        /\ Len(phot.id) = Len(xy)
        /\ \A i \in DOMAIN xy : phot.xcenter[i] = Rat(xy[i], 4)
        /\ Len(bkg_median) = Len(xy)
        /\ HasCol("annulus_median") /\ HasCol("aperture_sum_bkgsub2")
        /\ \A i \in DOMAIN xy :
              \A own \in {sigma_clipped_stats(OwnSample(i)).median} :
                 /\ phot.annulus_median[i] = own
                 /\ phot.aperture_bkg2[i] = RatMul(own, SourceArea)
                 /\ phot.aperture_sum_bkgsub2[i]
                        = RatSub(phot.aperture_sum[i], RatMul(own, SourceArea))

\* the image, after the background was added, has the same value everywhere
Constant(image) == \A p \in DOMAIN image : image[p] = image[1]

\* every source aperture and annulus is inside the image
AllInside ==
    \A i \in DOMAIN xy :
        /\ bounding_box(xy[i], R_OUT).ixmin >= 0
        /\ bounding_box(xy[i], R_OUT).ixmax <= Width
        /\ bounding_box(xy[i], R).ixmin >= 0
        /\ bounding_box(xy[i], R).ixmax <= Width

OutIs(label, v) == label \in DOMAIN out => out[label] = v

C5_ImageChangedOnce ==
    /\ ~Ran("load") => data = <<>>
    /\ (Ran("load") /\ ~Ran("add_bkg")) => data = sci
    /\ Ran("add_bkg") => data = [p \in DOMAIN sci |-> sci[p] + BKG]
    /\ (DOMAIN phot # {} \/ DOMAIN out # {} \/ bkg_median # <<>>) => Ran("add_bkg")

\* the notebook ran to its end, photometry, masks and statistics included
C5_Witness ==
    /\ pc = "done"
    /\ NoError
    /\ HasCol("aperture_sum_bkgsub2")
    /\ data = [p \in DOMAIN sci |-> sci[p] + BKG]
    /\ data # sci

\* C6: background estimation fails for a source whose annulus selects no
\* pixel of the image (the annulus lies outside the image): no numeric value
\* is appended to bkg_median for that source.  (The error kind is read as
\* "an exception is raised".)
C6_OutsideAnnulusFails ==
    pc \in {"for", "columns"} =>
        \A i \in DOMAIN bkg_median : ~Outside(i)

\* the loop raised for source it, and a source after it has an annulus
\* that overlaps the image
FailedBeforeGoodSource ==
    /\ "loop" \in DOMAIN tb
    /\ \E j \in (it + 1)..Len(xy) : ~Outside(j)

OneOutlier(s) ==
    /\ Len(s) >= 3
    /\ \E k \in DOMAIN s :
          /\ \A i, j \in DOMAIN s \ {k} : s[i] = s[j]
          /\ \A i \in DOMAIN s \ {k} : s[i] # s[k]

\* the value of the elements that are not the outlier
Base(s) == CHOOSE v \in Range(s) : Cardinality({i \in DOMAIN s : s[i] = v}) > 1

\* the cells of the first source's walkthrough have run and the loop has not
AfterSigClip ==
    /\ pc \in {"biweight", "bkg_total", "sub_first", "loop"}
    /\ "median_sigclip" \in names

\* C8: when the first source's annulus sample is all c except for one
\* outlier, the plain mean differs from c, the sigma-clipped median is c (the
\* clipping rejects the outlier: the clipped mean is c and the clipped
\* deviation 0), and the background-subtracted flux is the aperture sum
\* minus c times the source aperture's area.
C8_SigmaClipRobust ==
    (AfterSigClip /\ OneOutlier(aper_data.arr)) =>
        \A c \in {Base(aper_data.arr)} :
            /\ out["mean"] # c
            /\ median_sigclip = c
            /\ mean_sigclip = c
            /\ std_sigclip = Zero
            /\ pc = "loop" =>
                 out["sub_first"] = RatSub(phot.aperture_sum[1], RatMul(c, SourceArea))

\* the walkthrough ran on a sample with one bright pixel
C8_Witness ==
    /\ pc = "loop"
    /\ "median_sigclip" \in names
    /\ OneOutlier(aper_data.arr)
    /\ \E k \in DOMAIN aper_data.arr : aper_data.arr[k] = FromInt(Bright + BKG)
    /\ "sub_first" \in DOMAIN out

\* the pixels of the image whose centre lies in the first source's annulus
InAnnulus(j) ==
    /\ Abs(4 * j - xy[1]) >= 4 * R_IN
    /\ Abs(4 * j - xy[1]) < 4 * R_OUT

\* C9: the sample of the walkthrough is exactly the raw image values at the
\* pixels whose centre lies in the annulus, one value per such pixel; every
\* selected weight is 1.
C9_SampleIsAnnulusPixels ==
    (pc = "mean_median" /\ "extract" \notin DOMAIN tb) =>
        /\ aper_data.arr
             = BoolIndex([p \in DOMAIN data |-> FromInt(data[p])],
                         [p \in DOMAIN data |-> InAnnulus(p - 1)])
        /\ Len(aper_data.arr) = Cardinality({j \in 0..(Width - 1) : InAnnulus(j)})
        /\ Len(weights) = Len(aper_data.arr)
        /\ \A k \in DOMAIN weights : weights[k] = FromInt(1)

\* C10: the first estimate of the loop is the median_sigclip the walkthrough
\* displayed, and the first row of aperture_sum_bkgsub2 is the value the
\* walkthrough displayed for phot['aperture_sum'][0] - bkg_total, which is
\* phot['aperture_sum'][0] - aper.area * median_sigclip.
C10_LoopAgreesWithWalkthrough ==
    /\ (Len(bkg_median) >= 1 /\ "median_sigclip" \in DOMAIN out) =>
          bkg_median[1] = out["median_sigclip"]
    /\ HasCol("aperture_sum_bkgsub2") =>
          /\ phot.aperture_sum_bkgsub2[1] = out["sub_first"]
          /\ phot.aperture_sum_bkgsub2[1]
                = RatSub(phot.aperture_sum[1],
                         RatMul(SourceArea, out["median_sigclip"]))

\* a finished run of two sources on an image with a step in the first
\* source's annulus
C10_Witness ==
    /\ pc = "done"
    /\ AllInside
    /\ Len(xy) >= 2
    /\ HasCol("aperture_sum_bkgsub2")
    /\ out["mean_sigclip"] # out["median_sigclip"]
    /\ bkg_median[1] = out["median_sigclip"]

\* C11: the total uncertainty map is computed from the image as loaded,
\* before "data += 5.", and that cell leaves it unchanged: in every state
\* after its cell, tot_error is calc_total_error of the loaded image; the
\* photometry call sums the image with the +5 offset (aperture_sum) and
\* propagates that error map, whose Poisson term has no offset
\* (aperture_sum_err).
C11_ErrorFromLoadedImage ==
    /\ ~Ran("tot_error") => tot_error = <<>>
    /\ Ran("tot_error") =>
          tot_error = calc_total_error(sci, rms, texptime)
    /\ HasCol("aperture_sum_err") =>
          /\ Ran("add_bkg")
          /\ phot.aperture_sum
                = photometry_column(apertures, [p \in DOMAIN sci |-> sci[p] + BKG])
          /\ phot.aperture_sum_err
                = photometry_err_column(apertures,
                                        calc_total_error(sci, rms, texptime))

\* the photometry call has run on an image with the offset, and the error
\* map and the propagated errors differ from what the image with the offset
\* gives
C11_Witness ==
    /\ pc = "apers"
    /\ AllInside
    /\ HasCol("aperture_sum_err")
    /\ data = [p \in DOMAIN sci |-> sci[p] + BKG]
    /\ tot_error # calc_total_error(data, error, eff_gain)
    /\ phot.aperture_sum_err
          # photometry_err_column(apertures,
                                  calc_total_error(data, error, eff_gain))

====
